---------------------------- MODULE Spec2Model ----------------------------
(***************************************************************************)
(* A model of rpi-fan-control (src/fancontrol.py): the Fan class over the  *)
(* lgpio library, get_temperature, the control loop and run.               *)
(*                                                                         *)
(* Python floats are modelled as exact rationals <<n, d>> in lowest terms  *)
(* with d > 0, so the arithmetic of control is carried out step by step as *)
(* the code writes it, without rounding.                                   *)
(***************************************************************************)
EXTENDS Integers, Sequences, FiniteSets, TLC

VARIABLES
    args,            \* the arguments of run: index, pin, tmin, tmax, interval, epsilon
    pc,              \* position of the process in run / control
    fan,             \* the Fan object's attributes (a function from attribute name to value)
    lgpio,           \* the state of the lgpio library and the calls made to it
    readings,        \* the sensor file as each get_temperature call found it
    temperature,     \* control's local: the last temperature read
    speed,           \* control's local: the last computed speed
    previous_speed,  \* control's local: the last committed speed
    sleeps,          \* the durations passed to time.sleep, in order
    pending,         \* the exception in flight, or "none"
    escaped,         \* the exception that left run, "none" while run has not raised
    signal,          \* the signal delivered to the process, or "none"
    calls,           \* the Fan methods a direct user of the class has called, in order
    targets          \* the speeds control has computed, each with its temperature and
                     \* the previous_speed it was computed under

vars == <<args, pc, fan, lgpio, readings, temperature, speed, previous_speed,
          sleeps, pending, escaped, signal, calls, targets>>

-----------------------------------------------------------------------------
(* Bounds of the model. *)

\* iterations of the control loop that are explored
MaxIter == 4

\* evaluations of the mapping that are compared with each other
MaxEvals == 2

\* method calls a direct user of Fan makes
MaxCalls == 5

-----------------------------------------------------------------------------
(* Program constants. *)

FREQ == 25

None == -1

DefaultIndex == 0

DefaultPin == 14

DefaultTmin == 50

DefaultTmax == 75

DefaultInterval == 10

DefaultEpsilon == 1

-----------------------------------------------------------------------------
(* Floats as exact rationals. *)

RECURSIVE GCD(_, _)
GCD(a, b) == IF b = 0 THEN a ELSE GCD(b, a % b)

IAbs(i) == IF i < 0 THEN -i ELSE i

\* n/d in lowest terms with a positive denominator (d # 0)
Frac(n, d) ==
    LET g == GCD(IAbs(n), IAbs(d))
        s == IF d < 0 THEN -1 ELSE 1
    IN  <<(s * n) \div g, (s * d) \div g>>

F(i) == <<i, 1>>

FAdd(x, y) == Frac(x[1] * y[2] + y[1] * x[2], x[2] * y[2])

FNeg(x) == <<-x[1], x[2]>>

FSub(x, y) == FAdd(x, FNeg(y))

FMul(x, y) == Frac(x[1] * y[1], x[2] * y[2])

\* x / y for y # 0; Python raises ZeroDivisionError for y = 0
FDiv(x, y) == Frac(x[1] * y[2], x[2] * y[1])

FAbs(x) == <<IAbs(x[1]), x[2]>>

FLt(x, y) == x[1] * y[2] < y[1] * x[2]

FLe(x, y) == x[1] * y[2] <= y[1] * x[2]

\* Python's max and min of two values: the first unless the second is strictly beyond it
FMax(x, y) == IF FLt(x, y) THEN y ELSE x

FMin(x, y) == IF FLt(y, x) THEN y ELSE x

-----------------------------------------------------------------------------
(* The sensor file and get_temperature. *)

\* what /sys/class/thermal/thermal_zone0/temp may hold when it is opened:
\* a number of millidegrees, text that is no number, or no file at all
SensorFiles ==
    {[kind |-> "number", raw |-> r] : r \in {40000, 60000, 61000, 62000, 90000}}
    \cup {[kind |-> "garbage", raw |-> 0], [kind |-> "missing", raw |-> 0]}

\* get_temperature dividing the raw value by 100
get_temperature_centi(file) ==
    IF file.kind = "missing" THEN [exc |-> "OSError", value |-> <<>>]
    ELSE IF file.kind = "garbage" THEN [exc |-> "ValueError", value |-> <<>>]
    ELSE [exc |-> "none", value |-> FDiv(F(file.raw), F(100))]

\* get_temperature: open the file, parse its contents as a float, divide by 1000
get_temperature(file) ==
    IF file.kind = "missing" THEN [exc |-> "OSError", value |-> <<>>]
    ELSE IF file.kind = "garbage" THEN [exc |-> "ValueError", value |-> <<>>]
    ELSE [exc |-> "none", value |-> FDiv(F(file.raw), F(1000))]

-----------------------------------------------------------------------------
(* The lgpio library, as far as fancontrol.py calls it.  Its state is a     *)
(* record: chips, the open chip handles; opened, the number of handles      *)
(* gpiochip_open has returned; closed, the handles passed to                *)
(* gpiochip_close, in order; claimed, the <<handle, pin>> lines claimed as  *)
(* outputs; tx, the tx_pwm calls in order, each with whether it succeeded.  *)
(* Whether a call on the hardware succeeds is an input (ok).                *)

lgpio0 == [chips |-> {}, opened |-> 0, closed |-> <<>>, claimed |-> {}, tx |-> <<>>]

gpiochip_open(L, index, ok) ==
    IF ok
    THEN [lgpio |-> [L EXCEPT !.chips = @ \cup {L.opened}, !.opened = @ + 1],
          ret |-> L.opened, exc |-> "none"]
    ELSE [lgpio |-> L, ret |-> None, exc |-> "lgpio.error"]

gpio_claim_output(L, h, pin, ok) ==
    IF ok /\ h \in L.chips
    THEN [lgpio |-> [L EXCEPT !.claimed = @ \cup {<<h, pin>>}], exc |-> "none"]
    ELSE [lgpio |-> L, exc |-> "lgpio.error"]

\* releasing a handle that is not open is an error of the library
gpiochip_close(L, h) ==
    IF h \in L.chips
    THEN [lgpio |-> [L EXCEPT !.chips = @ \ {h},
                              !.claimed = {c \in @ : c[1] # h},
                              !.closed = Append(@, h)],
          exc |-> "none"]
    ELSE [lgpio |-> [L EXCEPT !.closed = Append(@, h)], exc |-> "lgpio.error"]

\* a failed call leaves the duty cycle of the line as it was
tx_pwm(L, h, pin, freq, duty, ok) ==
    LET done == ok /\ h \in L.chips
    IN  [lgpio |-> [L EXCEPT !.tx = Append(@, [h |-> h, pin |-> pin, freq |-> freq,
                                              duty |-> duty, ok |-> done])],
         exc |-> IF done THEN "none" ELSE "lgpio.error"]

-----------------------------------------------------------------------------
(* class Fan.  An object is the record of its attributes; NoObject has no   *)
(* attribute yet.  Each method takes the object and the library state and   *)
(* gives the object and the library state after the call, with the          *)
(* exception the call raises ("none" when it returns).                      *)

NoObject == <<>>

\* __init__ without line 74: the pin is never claimed
Fan__init__noclaim(L, index, pin, openOk, claimOk) ==
    LET o == gpiochip_open(L, index, openOk)
    IN  IF o.exc # "none" THEN [fan |-> [pin |-> pin], lgpio |-> o.lgpio, exc |-> o.exc]
        ELSE [fan |-> [pin |-> pin, h |-> o.ret], lgpio |-> o.lgpio, exc |-> "none"]

Fan__init__(L, index, pin, openOk, claimOk) ==
    LET self1 == [pin |-> pin]
        o == gpiochip_open(L, index, openOk)
        self2 == [pin |-> pin, h |-> o.ret]
        c == gpio_claim_output(o.lgpio, o.ret, pin, claimOk)
    IN  IF o.exc # "none" THEN [fan |-> self1, lgpio |-> o.lgpio, exc |-> o.exc]
        ELSE [fan |-> self2, lgpio |-> c.lgpio, exc |-> c.exc]

\* close without line 84: the handle is kept after the release
Fan_close_keep_handle(self, L) ==
    IF self.h # None
    THEN LET r == gpiochip_close(L, self.h)
         IN  [fan |-> self, lgpio |-> r.lgpio, exc |-> r.exc]
    ELSE [fan |-> self, lgpio |-> L, exc |-> "none"]

Fan_close(self, L) ==
    IF self.h # None
    THEN LET r == gpiochip_close(L, self.h)
         IN  IF r.exc # "none" THEN [fan |-> self, lgpio |-> r.lgpio, exc |-> r.exc]
             ELSE [fan |-> [self EXCEPT !.h = None], lgpio |-> r.lgpio, exc |-> "none"]
    ELSE [fan |-> self, lgpio |-> L, exc |-> "none"]

Fan__enter__(self) == self

\* __exit__ returning True: the with statement suppresses the exception
Fan__exit__swallow(self, L) ==
    LET r == Fan_close(self, L)
    IN  [fan |-> r.fan, lgpio |-> r.lgpio, exc |-> r.exc, suppress |-> TRUE]

\* __exit__ returns None: the with statement does not suppress the exception
Fan__exit__(self, L) ==
    LET r == Fan_close(self, L)
    IN  [fan |-> r.fan, lgpio |-> r.lgpio, exc |-> r.exc, suppress |-> FALSE]

Fan_set(self, L, percent, ok) ==
    LET r == tx_pwm(L, self.h, self.pin, FREQ, percent, ok)
    IN  [fan |-> self, lgpio |-> r.lgpio, exc |-> r.exc]

-----------------------------------------------------------------------------
(* control: the mapping from temperature to speed and the damping step.    *)

\* the mapping without the clamp of line 133
control_speed_unclamped(tmin, tmax, t) ==
    LET m == FDiv(F(100), FSub(tmax, tmin))
        c == FMul(FNeg(m), tmin)
    IN  FAdd(FMul(m, t), c)

\* line 132 without the minus sign
control_speed_intercept(tmin, tmax, t) ==
    LET m == FDiv(F(100), FSub(tmax, tmin))
        c == FMul(m, tmin)
    IN  FMin(FMax(FAdd(FMul(m, t), c), F(0)), F(100))

\* lines 131-133, for tmax # tmin
control_speed(tmin, tmax, t) ==
    LET m == FDiv(F(100), FSub(tmax, tmin))
        c == FMul(FNeg(m), tmin)
    IN  FMin(FMax(FAdd(FMul(m, t), c), F(0)), F(100))

\* the comparison of line 135 written with >=
control_exceeds_ge(sp, previous, epsilon) == FLe(epsilon, FAbs(FSub(sp, previous)))

\* the comparison of line 135 without abs
control_exceeds_noabs(sp, previous, epsilon) == FLt(epsilon, FSub(sp, previous))

\* line 135
control_exceeds(sp, previous, epsilon) == FLt(epsilon, FAbs(FSub(sp, previous)))

\* line 137 outside the if: previous_speed follows every computed speed
control_damping_dedent(self, L, sp, previous, epsilon, ok) ==
    IF FLt(epsilon, FAbs(FSub(sp, previous)))
    THEN LET r == Fan_set(self, L, sp, ok)
         IN  IF r.exc # "none"
             THEN [lgpio |-> r.lgpio, previous_speed |-> previous, exc |-> r.exc]
             ELSE [lgpio |-> r.lgpio, previous_speed |-> sp, exc |-> "none"]
    ELSE [lgpio |-> L, previous_speed |-> sp, exc |-> "none"]

\* lines 136 and 137 swapped: previous_speed is assigned before the write
control_damping_commit_first(self, L, sp, previous, epsilon, ok) ==
    IF FLt(epsilon, FAbs(FSub(sp, previous)))
    THEN LET r == Fan_set(self, L, sp, ok)
         IN  [lgpio |-> r.lgpio, previous_speed |-> sp, exc |-> r.exc]
    ELSE [lgpio |-> L, previous_speed |-> previous, exc |-> "none"]

\* lines 135-137: the new library state and previous_speed, and the exception raised
control_damping(self, L, sp, previous, epsilon, ok) ==
    IF control_exceeds(sp, previous, epsilon)
    THEN LET r == Fan_set(self, L, sp, ok)
         IN  IF r.exc # "none"
             THEN [lgpio |-> r.lgpio, previous_speed |-> previous, exc |-> r.exc]
             ELSE [lgpio |-> r.lgpio, previous_speed |-> sp, exc |-> "none"]
    ELSE [lgpio |-> L, previous_speed |-> previous, exc |-> "none"]

-----------------------------------------------------------------------------
(* run as a process.  pc is "run" before Fan(index, pin), "control" inside  *)
(* the with block before control's first line, then "read", "compute",     *)
(* "decide" and "sleep" around the loop, "unwind" while an exception leaves *)
(* the with block, "exited" once run has raised or returned and "killed"    *)
(* when the process was terminated without unwinding.                      *)

Tmins == {DefaultTmin, 60}

Tmaxs == {DefaultTmin, DefaultTmax}

Epsilons == {0, DefaultEpsilon, 4}

RunArgs ==
    [index : {DefaultIndex}, pin : {DefaultPin}, tmin : Tmins, tmax : Tmaxs,
     interval : {DefaultInterval}, epsilon : Epsilons]

LoopPcs == {"read", "compute", "decide", "sleep"}

Init ==
    /\ args \in RunArgs
    /\ pc = "run"
    /\ fan = NoObject
    /\ lgpio = lgpio0
    /\ readings = <<>>
    /\ temperature = <<>>
    /\ speed = <<>>
    /\ previous_speed = <<>>
    /\ sleeps = <<>>
    /\ pending = "none"
    /\ escaped = "none"
    /\ signal = "none"
    /\ calls = <<>>
    /\ targets = <<>>

\* line 161: Fan(index, pin); an exception of __init__ leaves run before the with
\* block is entered, so __exit__ is not called
Construct ==
    /\ pc = "run"
    /\ \E openOk \in BOOLEAN, claimOk \in BOOLEAN :
        LET r == Fan__init__(lgpio, args.index, args.pin, openOk, claimOk)
        IN  /\ lgpio' = r.lgpio
            /\ IF r.exc = "none"
               THEN /\ fan' = Fan__enter__(r.fan)
                    /\ pc' = "control"
                    /\ escaped' = escaped
               ELSE /\ fan' = fan
                    /\ pc' = "exited"
                    /\ escaped' = r.exc
    /\ UNCHANGED <<args, readings, temperature, speed, previous_speed, sleeps,
                   pending, signal, calls, targets>>

\* line 125
EnterControl ==
    /\ pc = "control"
    /\ previous_speed' = F(0)
    /\ pc' = "read"
    /\ UNCHANGED <<args, fan, lgpio, readings, temperature, speed, sleeps,
                   pending, escaped, signal, calls, targets>>

\* line 129
GetTemperature ==
    /\ pc = "read"
    /\ Len(readings) < MaxIter
    /\ \E file \in SensorFiles :
        LET r == get_temperature(file)
        IN  /\ readings' = Append(readings, file)
            /\ IF r.exc = "none"
               THEN /\ temperature' = r.value
                    /\ pc' = "compute"
                    /\ pending' = pending
               ELSE /\ temperature' = temperature
                    /\ pc' = "unwind"
                    /\ pending' = r.exc
    /\ UNCHANGED <<args, fan, lgpio, speed, previous_speed, sleeps, escaped,
                   signal, calls, targets>>

\* line 133 followed by a smoothing of the speed towards previous_speed
Compute_blended ==
    /\ pc = "compute"
    /\ IF args.tmax = args.tmin
       THEN /\ pending' = "ZeroDivisionError"
            /\ pc' = "unwind"
            /\ speed' = speed
       ELSE /\ speed' = FDiv(FAdd(control_speed(F(args.tmin), F(args.tmax), temperature),
                                  previous_speed), F(2))
            /\ pc' = "decide"
            /\ pending' = pending
    /\ targets' = IF pc' = "decide"
                  THEN Append(targets, [temperature |-> temperature, speed |-> speed',
                                        previous |-> previous_speed])
                  ELSE targets
    /\ UNCHANGED <<args, fan, lgpio, readings, temperature, previous_speed,
                   sleeps, escaped, signal, calls>>

\* lines 131-133
Compute ==
    /\ pc = "compute"
    /\ IF args.tmax = args.tmin
       THEN /\ pending' = "ZeroDivisionError"
            /\ pc' = "unwind"
            /\ speed' = speed
       ELSE /\ speed' = control_speed(F(args.tmin), F(args.tmax), temperature)
            /\ pc' = "decide"
            /\ pending' = pending
    /\ targets' = IF pc' = "decide"
                  THEN Append(targets, [temperature |-> temperature, speed |-> speed',
                                        previous |-> previous_speed])
                  ELSE targets
    /\ UNCHANGED <<args, fan, lgpio, readings, temperature, previous_speed,
                   sleeps, escaped, signal, calls>>

\* lines 135-137
Decide ==
    /\ pc = "decide"
    /\ \E ok \in BOOLEAN :
        LET r == control_damping(fan, lgpio, speed, previous_speed,
                                 F(args.epsilon), ok)
        IN  /\ lgpio' = r.lgpio
            /\ previous_speed' = r.previous_speed
            /\ IF r.exc = "none"
               THEN pc' = "sleep" /\ pending' = pending
               ELSE pc' = "unwind" /\ pending' = r.exc
    /\ UNCHANGED <<args, fan, readings, temperature, speed, sleeps, escaped,
                   signal, calls, targets>>

\* line 139
Sleep ==
    /\ pc = "sleep"
    /\ sleeps' = Append(sleeps, args.interval)
    /\ pc' = "read"
    /\ UNCHANGED <<args, fan, lgpio, readings, temperature, speed,
                   previous_speed, pending, escaped, signal, calls, targets>>

\* A signal sent to the process while the loop runs.  The program installs no
\* handler (lines 165-205): SIGINT is raised as KeyboardInterrupt in the loop,
\* SIGTERM ends the process at once, with no exception and no unwinding.
Signal ==
    /\ pc \in LoopPcs
    /\ signal = "none"
    /\ \E sig \in {"SIGINT", "SIGTERM"} :
        /\ signal' = sig
        /\ IF sig = "SIGINT"
           THEN pc' = "unwind" /\ pending' = "KeyboardInterrupt"
           ELSE pc' = "killed" /\ pending' = pending
    /\ UNCHANGED <<args, fan, lgpio, readings, temperature, speed,
                   previous_speed, sleeps, escaped, calls, targets>>

\* lines 161-162: the exception leaves the with block through __exit__
Unwind ==
    /\ pc = "unwind"
    /\ LET r == Fan__exit__(fan, lgpio)
       IN  /\ fan' = r.fan
           /\ lgpio' = r.lgpio
           /\ escaped' = IF r.exc # "none" THEN r.exc
                         ELSE IF r.suppress THEN "none" ELSE pending
    /\ pending' = "none"
    /\ pc' = "exited"
    /\ UNCHANGED <<args, readings, temperature, speed, previous_speed, sleeps,
                   signal, calls, targets>>

Next ==
    \/ Construct
    \/ EnterControl
    \/ GetTemperature
    \/ Compute
    \/ Decide
    \/ Sleep
    \/ Signal
    \/ Unwind

Spec == Init /\ [][Next]_vars

-----------------------------------------------------------------------------
(* The Fan class under a direct user: one object is constructed and its    *)
(* methods are called in any order.  pending holds the exception the last  *)
(* call raised.                                                            *)

Percents == {F(0), F(40), F(100)}

FanInit ==
    /\ args \in [index : {DefaultIndex}, pin : {DefaultPin}, tmin : {DefaultTmin},
                 tmax : {DefaultTmax}, interval : {DefaultInterval},
                 epsilon : {DefaultEpsilon}]
    /\ pc = "user"
    /\ fan = NoObject
    /\ lgpio = lgpio0
    /\ readings = <<>>
    /\ temperature = <<>>
    /\ speed = <<>>
    /\ previous_speed = <<>>
    /\ sleeps = <<>>
    /\ pending = "none"
    /\ escaped = "none"
    /\ signal = "none"
    /\ calls = <<>>
    /\ targets = <<>>

UserRest == <<args, pc, readings, temperature, speed, previous_speed, sleeps,
              escaped, signal, targets>>

\* Fan(index, pin): the user holds the object only if __init__ returned
UserNew ==
    /\ pc = "user" /\ Len(calls) < MaxCalls /\ fan = NoObject
    /\ \E openOk \in BOOLEAN, claimOk \in BOOLEAN :
        LET r == Fan__init__(lgpio, args.index, args.pin, openOk, claimOk)
        IN  /\ lgpio' = r.lgpio
            /\ fan' = IF r.exc = "none" THEN r.fan ELSE fan
            /\ pending' = r.exc
    /\ calls' = Append(calls, "__init__")
    /\ UNCHANGED UserRest

UserEnter ==
    /\ pc = "user" /\ Len(calls) < MaxCalls /\ fan # NoObject
    /\ fan' = Fan__enter__(fan)
    /\ pending' = "none"
    /\ calls' = Append(calls, "__enter__")
    /\ UNCHANGED <<lgpio, UserRest>>

UserSet ==
    /\ pc = "user" /\ Len(calls) < MaxCalls /\ fan # NoObject
    /\ \E percent \in Percents, ok \in BOOLEAN :
        LET r == Fan_set(fan, lgpio, percent, ok)
        IN  fan' = r.fan /\ lgpio' = r.lgpio /\ pending' = r.exc
    /\ calls' = Append(calls, "set")
    /\ UNCHANGED UserRest

UserClose ==
    /\ pc = "user" /\ Len(calls) < MaxCalls /\ fan # NoObject
    /\ LET r == Fan_close(fan, lgpio)
       IN  fan' = r.fan /\ lgpio' = r.lgpio /\ pending' = r.exc
    /\ calls' = Append(calls, "close")
    /\ UNCHANGED UserRest

UserExit ==
    /\ pc = "user" /\ Len(calls) < MaxCalls /\ fan # NoObject
    /\ LET r == Fan__exit__(fan, lgpio)
       IN  fan' = r.fan /\ lgpio' = r.lgpio /\ pending' = r.exc
    /\ calls' = Append(calls, "__exit__")
    /\ UNCHANGED UserRest

FanNext ==
    \/ UserNew
    \/ UserEnter
    \/ UserSet
    \/ UserClose
    \/ UserExit

FanSpec == FanInit /\ [][FanNext]_vars

-----------------------------------------------------------------------------
(* The mapping of control on its own: get_temperature and lines 131-133    *)
(* applied to readings and parameters drawn from wider sets; the damping   *)
(* step, the sleep and the Fan are left out.                               *)

MapTemps == {40, DefaultTmin, 60, DefaultTmax}

MapRaws == {30000, 40000, 45500, 49999, 50000, 50001, 55000, 60000, 61250,
            62500, 74999, 75000, 75001, 80000, 90000}

MapInit ==
    /\ args \in [index : {DefaultIndex}, pin : {DefaultPin}, tmin : MapTemps,
                 tmax : MapTemps, interval : {DefaultInterval},
                 epsilon : {DefaultEpsilon}]
    /\ pc = "read"
    /\ fan = NoObject
    /\ lgpio = lgpio0
    /\ readings = <<>>
    /\ temperature = <<>>
    /\ speed = <<>>
    /\ previous_speed = F(0)
    /\ sleeps = <<>>
    /\ pending = "none"
    /\ escaped = "none"
    /\ signal = "none"
    /\ calls = <<>>
    /\ targets = <<>>

\* line 129, the sensor file holding a number
MapRead ==
    /\ pc = "read"
    /\ Len(targets) < MaxEvals
    /\ \E raw \in MapRaws :
        LET file == [kind |-> "number", raw |-> raw]
        IN  /\ readings' = Append(readings, file)
            /\ temperature' = get_temperature(file).value
    /\ pc' = "compute"
    /\ UNCHANGED <<args, fan, lgpio, speed, previous_speed, sleeps, pending,
                   escaped, signal, calls, targets>>

\* back to line 129 with the computed speed left uncommitted
MapReturn ==
    /\ pc = "decide"
    /\ pc' = "read"
    /\ UNCHANGED <<args, fan, lgpio, readings, temperature, speed,
                   previous_speed, sleeps, pending, escaped, signal, calls,
                   targets>>

MapNext ==
    \/ MapRead
    \/ Compute
    \/ MapReturn

MapSpec == MapInit /\ [][MapNext]_vars

-----------------------------------------------------------------------------
(* Properties. *)

Last(s) == s[Len(s)]

\* the tx_pwm calls that succeeded: the duty cycles written to the hardware
Writes == SelectSeq(lgpio.tx, LAMBDA e : e.ok)

Duties(s) == [i \in 1..Len(s) |-> s[i].duty]

InRange(x) == FLe(F(0), x) /\ FLe(x, F(100))

\* C1: in every state the duty cycle last written to the hardware is
\* previous_speed, and previous_speed is 0 while nothing has been written.
C1_LastWriteIsCommitted ==
    previous_speed # <<>> =>
        IF Writes = <<>> THEN previous_speed = F(0)
        ELSE Last(Writes).duty = previous_speed

\* an iteration skipped its write after two earlier writes
C1_Witness ==
    /\ pc = "sleep"
    /\ Len(Writes) = 2
    /\ Len(readings) = 3
    /\ speed # previous_speed

\* C2: a damping step (lines 135-137) issues no write and keeps previous_speed
\* when abs(speed - previous_speed) <= epsilon; otherwise it issues exactly one
\* write, of speed, and previous_speed becomes speed when the write returns.
C2_DampingDecision ==
    [][(pc = "decide" /\ pc' \in {"sleep", "unwind"} /\ signal' = signal) =>
          IF FLe(FAbs(FSub(speed, previous_speed)), F(args.epsilon))
          THEN /\ lgpio'.tx = lgpio.tx
               /\ previous_speed' = previous_speed
               /\ pc' = "sleep"
          ELSE /\ lgpio'.tx = Append(lgpio.tx,
                        [h |-> fan.h, pin |-> args.pin, freq |-> FREQ,
                         duty |-> speed, ok |-> (pc' = "sleep")])
               /\ (pc' = "sleep" => previous_speed' = speed)]_vars

\* after three iterations one wrote and another skipped, the target being
\* exactly epsilon away from previous_speed in the last one
C2_Witness ==
    /\ pc = "sleep"
    /\ Len(readings) = 3
    /\ Len(Writes) = 1
    /\ args.epsilon = 4
    /\ speed # previous_speed
    /\ FAbs(FSub(speed, previous_speed)) = F(args.epsilon)

\* C3: every duty cycle passed to Fan.set, and previous_speed, lies in [0, 100].
C3_DutyInRange ==
    /\ \A i \in 1..Len(lgpio.tx) : InRange(lgpio.tx[i].duty)
    /\ previous_speed # <<>> => InRange(previous_speed)

\* a reading above tmax was written as 100 and a later one below tmin as 0
C3_Witness ==
    /\ args.tmin < args.tmax
    /\ \E i, j \in 1..Len(readings) :
        /\ i < j
        /\ readings[i].kind = "number" /\ readings[i].raw > 1000 * args.tmax
        /\ readings[j].kind = "number" /\ readings[j].raw < 1000 * args.tmin
    /\ \E i, j \in 1..Len(Writes) :
        i < j /\ Writes[i].duty = F(100) /\ Writes[j].duty = F(0)

\* Scenario A: tmin = 50, tmax = 75, epsilon = 1 and the temperatures
\* 40, 60, 61, 90; k iterations have made their damping decision
ScenarioA(k) ==
    /\ args.tmin = 50 /\ args.tmax = 75 /\ args.epsilon = 1
    /\ pc = "sleep"
    /\ Len(readings) = k
    /\ \A i \in 1..k : readings[i] = [kind |-> "number",
                                      raw |-> <<40000, 60000, 61000, 90000>>[i]]

\* C4 as claimed: in Scenario A every iteration writes, the writes being
\* 0, 40, 44, 100.
C4_ScenarioA_FourWrites ==
    \A k \in 1..4 :
        ScenarioA(k) =>
            Duties(lgpio.tx) = SubSeq(<<F(0), F(40), F(44), F(100)>>, 1, k)

\* C4 amended: in Scenario A the first iteration writes nothing (its target 0
\* is within epsilon of the initial previous_speed 0) and iterations 2, 3, 4
\* write 40, 44, 100.
C4_ScenarioA_ThreeWrites ==
    \A k \in 1..4 :
        ScenarioA(k) =>
            /\ Duties(lgpio.tx) = SubSeq(<<F(40), F(44), F(100)>>, 1, k - 1)
            /\ Writes = lgpio.tx

C4_Witness == ScenarioA(4) /\ Len(Writes) = 3

\* C5 as claimed: with tmax = tmin the loop is never entered: no sensor read,
\* no write, no sleep, and a Fan that was constructed is not left open.
C5_EqualBoundsNeverEnterLoop ==
    args.tmax = args.tmin =>
        /\ readings = <<>>
        /\ lgpio.tx = <<>>
        /\ sleeps = <<>>
        /\ (pc = "exited" /\ fan # NoObject) => lgpio.chips = {}

\* the last get_temperature call failed
ReadFailed == readings # <<>> /\ Last(readings).kind # "number"

SensorError == IF Last(readings).kind = "missing" THEN "OSError" ELSE "ValueError"

\* the chip run opened was released by one gpiochip_close and none is open
ReleasedOnce ==
    /\ lgpio.opened = 1
    /\ lgpio.closed = <<0>>
    /\ lgpio.chips = {}
    /\ fan.h = None

\* C6: when get_temperature fails in iteration k the loop ends there: no
\* write and no sleep in iteration k, no read, write or sleep afterwards, the
\* error is the exception in flight and then the one leaving run, and run
\* exits with the chip released by exactly one gpiochip_close.
C6_SensorFailureEndsRun ==
    /\ [](ReadFailed =>
            /\ pc \in {"unwind", "exited"}
            /\ Len(sleeps) = Len(readings) - 1
            /\ pc = "unwind" => pending = SensorError
            /\ pc = "exited" => escaped = SensorError /\ ReleasedOnce)
    /\ [][ReadFailed' =>
            /\ lgpio'.tx = lgpio.tx
            /\ sleeps' = sleeps
            /\ ReadFailed => readings' = readings]_vars

\* the read of the third iteration failed after a write, and run has exited
C6_Witness ==
    /\ ReadFailed
    /\ Len(readings) = 3
    /\ Len(Writes) >= 1
    /\ pc = "exited"
    /\ escaped = "OSError"

\* the last tx_pwm call failed
WriteFailed == lgpio.tx # <<>> /\ ~Last(lgpio.tx).ok

\* C7: when the write of an iteration fails the loop ends there: previous_speed
\* keeps its value, there is no sleep and no further read or write, the error
\* is the exception in flight and then the one leaving run, and run exits with
\* the chip released by exactly one gpiochip_close.
C7_WriteFailureEndsRun ==
    /\ [](WriteFailed =>
            /\ pc \in {"unwind", "exited"}
            /\ Len(sleeps) = Len(readings) - 1
            /\ previous_speed # Last(lgpio.tx).duty
            /\ pc = "unwind" => pending = "lgpio.error"
            /\ pc = "exited" => escaped = "lgpio.error" /\ ReleasedOnce)
    /\ [][WriteFailed' =>
            /\ previous_speed' = previous_speed
            /\ sleeps' = sleeps
            /\ readings' = readings
            /\ WriteFailed => lgpio'.tx = lgpio.tx]_vars

\* the write of the third iteration failed after two writes, and run has exited
C7_Witness ==
    /\ WriteFailed
    /\ Len(readings) = 3
    /\ Len(Writes) = 2
    /\ pc = "exited"
    /\ escaped = "lgpio.error"

\* C8 as claimed: when Fan(index, pin) fails the loop is not entered, the
\* error leaves run, and every handle gpiochip_open returned has been released.
C8_InitFailureReleasesHandle ==
    (pc = "exited" /\ fan = NoObject) =>
        /\ readings = <<>>
        /\ lgpio.tx = <<>>
        /\ escaped = "lgpio.error"
        /\ lgpio.chips = {}
        /\ Len(lgpio.closed) = lgpio.opened

\* the number of close calls (close or __exit__) the user has made
Closes == Len(SelectSeq(calls, LAMBDA c : c \in {"close", "__exit__"}))

\* C9: whatever the user of a Fan calls, gpiochip_close is called exactly once
\* on its handle, by the first close; from then on h is None and no close
\* raises.
C9_CloseIdempotent ==
    /\ Closes = 0 => lgpio.closed = <<>>
    /\ Closes >= 1 =>
        /\ Len(lgpio.closed) = 1
        /\ fan.h = None
        /\ fan.h \notin lgpio.chips
        /\ (Last(calls) \in {"close", "__exit__"} => pending = "none")

\* close was called twice, with a set in between, on an open Fan
C9_Witness ==
    /\ Closes >= 2
    /\ Last(calls) = "close"
    /\ \E i, j \in 1..Len(calls) : i < j /\ calls[i] = "close" /\ calls[j] = "set"

\* C10 as claimed: a signal that ends the process while the loop runs has
\* Fan.close invoked, once, before the process is gone.
C10_SignalReleasesFan ==
    (signal # "none" /\ pc \in {"exited", "killed"}) => ReleasedOnce

C12_LinearInterpolation ==
    args.tmin < args.tmax =>
        \A i \in 1..Len(targets) :
            LET t == targets[i].temperature
            IN  (FLt(F(args.tmin), t) /\ FLt(t, F(args.tmax))) =>
                    targets[i].speed =
                        FDiv(FMul(F(100), FSub(t, F(args.tmin))),
                             F(args.tmax - args.tmin))

\* the mapping was applied to 61.25 and to 74.999 degrees, both inside the range
C12_Witness ==
    /\ args.tmin = 60 /\ args.tmax = 75
    /\ Len(targets) = 2
    /\ targets[1].temperature = <<245, 4>>
    /\ targets[1].speed = <<25, 3>>
    /\ targets[2].temperature = <<74999, 1000>>
    /\ targets[2].speed # F(100)

\* C13 as claimed: under the parameters the loop was started with, a higher
\* temperature never gives a lower speed.
C13_Monotone ==
    \A i, j \in 1..Len(targets) :
        FLt(targets[i].temperature, targets[j].temperature) =>
            FLe(targets[i].speed, targets[j].speed)

\* the Fan was constructed and no sensor read failed, no write failed and no
\* signal arrived
Normal ==
    /\ fan # NoObject
    /\ signal = "none"
    /\ ~ReadFailed
    /\ ~WriteFailed

\* C14 as claimed: in normal operation control never leaves its loop, and
\* every iteration is one read, then at most one write, then one sleep of the
\* interval.
C14_NormalOperationLoops ==
    Normal =>
        /\ pc \in {"control"} \cup LoopPcs
        /\ Len(sleeps) = Len(readings) - (IF pc \in {"compute", "decide", "sleep"} THEN 1 ELSE 0)
        /\ Len(lgpio.tx) <= Len(readings) - (IF pc \in {"compute", "decide"} THEN 1 ELSE 0)
        /\ \A i \in 1..Len(sleeps) : sleeps[i] = args.interval

\* C15: every tx_pwm call carries a duty cycle more than epsilon away from the
\* one before it, the first from 0; no two consecutive calls carry the same
\* value; and nothing is written while every target so far is within epsilon
\* of 0.
C15_NoChatter ==
    /\ \A i \in 1..Len(lgpio.tx) :
        LET before == IF i = 1 THEN F(0) ELSE lgpio.tx[i - 1].duty
        IN  /\ FLt(F(args.epsilon), FAbs(FSub(lgpio.tx[i].duty, before)))
            /\ lgpio.tx[i].duty # before
    /\ (\A j \in 1..Len(targets) : FLe(FAbs(targets[j].speed), F(args.epsilon)))
            => lgpio.tx = <<>>

\* four iterations: no write while the target was 0, then three writes that
\* go up and come down again
C15_Witness ==
    /\ pc = "sleep"
    /\ Len(targets) = 4
    /\ targets[1].speed = F(0)
    /\ Len(Writes) = 3
    /\ FLt(Writes[1].duty, Writes[2].duty)
    /\ FLt(Writes[3].duty, Writes[2].duty)

\* C16: at every sleep point the last target is within epsilon of
\* previous_speed, and each target was compared with the speed committed
\* last, not with the target before it: the next iteration finds
\* previous_speed equal to the target when it was more than epsilon away,
\* and unchanged otherwise.
C16_TrackingBound ==
    /\ pc = "sleep" => FLe(FAbs(FSub(speed, previous_speed)), F(args.epsilon))
    /\ \A i \in 1..(Len(targets) - 1) :
        targets[i + 1].previous =
            IF FLt(F(args.epsilon), FAbs(FSub(targets[i].speed, targets[i].previous)))
            THEN targets[i].speed
            ELSE targets[i].previous

\* a drift 40, 44, 48 under epsilon 4: 44 is skipped, 48 is within epsilon of
\* the target before it and is committed, being 8 away from the committed 40
C16_Witness ==
    /\ args.epsilon = 4
    /\ pc = "sleep"
    /\ Len(targets) = 3
    /\ targets[1].speed = F(40) /\ targets[2].speed = F(44) /\ targets[3].speed = F(48)
    /\ targets[3].previous = F(40)
    /\ previous_speed = F(48)
    /\ Duties(Writes) = <<F(40), F(48)>>

\* C17: every sensor read and every tx_pwm call of run is made while the
\* Fan's handle is open and its pin claimed, before any gpiochip_close, and
\* tx_pwm is called on that handle and pin.
C17_UseWithinLifetime ==
    [][(lgpio'.tx # lgpio.tx \/ readings' # readings) =>
          /\ fan # NoObject
          /\ fan.h # None
          /\ fan.h \in lgpio.chips
          /\ <<fan.h, fan.pin>> \in lgpio.claimed
          /\ lgpio.closed = <<>>
          /\ lgpio'.tx # lgpio.tx =>
                Last(lgpio'.tx).h = fan.h /\ Last(lgpio'.tx).pin = fan.pin]_vars

\* run has exited through close after two writes
C17_Witness ==
    /\ pc = "exited"
    /\ Len(Writes) >= 2
    /\ fan # NoObject
    /\ fan.h = None
    /\ lgpio.closed = <<0>>

\* 100 * (t - tmin) / (tmax - tmin) cut to [0, 100]
TargetOf(tmin, tmax, t) ==
    LET raw == FDiv(FMul(F(100), FSub(t, F(tmin))), F(tmax - tmin))
    IN  IF FLt(raw, F(0)) THEN F(0) ELSE IF FLt(F(100), raw) THEN F(100) ELSE raw

\* C18: the target of an iteration is a function of tmin, tmax and the
\* temperature read: whatever epsilon, previous_speed and the history are, it
\* is TargetOf(tmin, tmax, temperature), and two iterations that read the same
\* temperature compute the same target.
C18_TargetIgnoresDamping ==
    /\ \A i \in 1..Len(targets) :
        targets[i].speed = TargetOf(args.tmin, args.tmax, targets[i].temperature)
    /\ \A i, j \in 1..Len(targets) :
        targets[i].temperature = targets[j].temperature =>
            targets[i].speed = targets[j].speed

\* the same temperature was read under two values of previous_speed; the
\* first time its target was written, the second time it was skipped
C18_Witness ==
    /\ pc = "sleep"
    /\ Len(targets) = 3
    /\ targets[1].temperature = targets[3].temperature
    /\ targets[1].previous # targets[3].previous
    /\ targets[1].speed # F(0)
    /\ Len(Writes) = 1

=============================================================================
